---- MODULE Spec2Model ----
(***************************************************************************)
(* term-video (src/src/main.rs): a video is split into PNG frames by       *)
(* ffmpeg, every frame is rendered to an ASCII blob, and the blobs are     *)
(* played back on the terminal.  The module models one process run after   *)
(* another on a file system that outlives each run.                        *)
(***************************************************************************)
EXTENDS Integers, Sequences, FiniteSets

VARIABLES
    pc,             \* position of the process in main / display_loop
    exitCode,       \* -1 while running, then the exit status (0, 1, 101 = panic)
    cause,          \* which unwrap / division panicked ("" when none)
    width, height,  \* w and h of main
    fpsOpt,         \* opts.fps: <<>> is None, <<r>> is Some(r)
    probeOut,       \* result of Command::output() of ffprobe, local to get_frame_rate
    frame_rate,     \* fps of main, frame_rate of display_loop (a u32)
    dirExists,      \* the cache path is a directory on disk
    files,          \* the files of the cache directory
    removed,        \* make_dir: files its remove_dir_all deleted, -1 if not called (local)
    made,           \* make_dir has returned in this run
    ffmpeg,         \* outcome of the ffmpeg invocation of this run
    frame_files,    \* display_loop: sorted paths
    frame_buffer,   \* display_loop: the shared String
    display_buffer, \* display_loop: Vec<String>
    shown,          \* display_loop: blobs of display_buffer already iterated
    out,            \* what the process has sent to stdout / asked of the OS, in order
    lum, glyph      \* one application of get_pixel_char

vars == <<pc, exitCode, cause, width, height, fpsOpt, probeOut, frame_rate,
          dirExists, files, removed, made, ffmpeg, frame_files, frame_buffer,
          display_buffer, shown, out, lum, glyph>>

glyphVars == <<lum, glyph>>

\* ------------------------------------------------------------------ bounds
MaxDim == 2
MaxFrames == 10
\* A further run is followed only from a cache directory of at most this many files
MaxLeftover == 2

\* ------------------------------------------------------------------ u32
\* A u32 is kept as two 16-bit limbs <<hi, lo>>, so that u32::MAX is a value.
Limb == 2 ^ 16

U32(v) == <<v \div Limb, v % Limb>>

U32_MAX == <<Limb - 1, Limb - 1>>

IsZero(r) == r = <<0, 0>>

\* 1000000 / r in u32 arithmetic, r # 0
DivMillion(r) ==
    IF r[1] >= 16 THEN 0 ELSE 1000000 \div (r[1] * Limb + r[2])

\* ------------------------------------------------------------------ Option
None == <<>>

Some(v) == <<v>>

\* Option::unwrap_or
UnwrapOr(opt, default) == IF opt = None THEN default ELSE opt[1]

\* ------------------------------------------------------------------ get_frame_rate
\* Strings are sequences of one-character strings.
IsSpace(c) == c \in {" ", "\n", "\t", "\r"}

IsDigit(c) == c \in {"0", "1", "2", "3", "4", "5", "6", "7", "8", "9"}

DigitValue(c) ==
    CASE c = "0" -> 0 [] c = "1" -> 1 [] c = "2" -> 2 [] c = "3" -> 3
      [] c = "4" -> 4 [] c = "5" -> 5 [] c = "6" -> 6 [] c = "7" -> 7
      [] c = "8" -> 8 [] c = "9" -> 9

RECURSIVE TrimStart(_)
TrimStart(s) ==
    IF s # <<>> /\ IsSpace(Head(s)) THEN TrimStart(Tail(s)) ELSE s

RECURSIVE TrimEnd(_)
TrimEnd(s) ==
    IF s # <<>> /\ IsSpace(s[Len(s)])
    THEN TrimEnd(SubSeq(s, 1, Len(s) - 1))
    ELSE s

\* str::trim
Trim(s) == TrimEnd(TrimStart(s))

\* str::split_once('/'): None, or Some of the text before and after the FIRST '/'
SplitOnce(s) ==
    LET hits == {i \in 1..Len(s) : s[i] = "/"}
    IN  IF hits = {} THEN None
        ELSE LET i == CHOOSE k \in hits : \A j \in hits : k <= j
             IN  Some(<<SubSeq(s, 1, i - 1), SubSeq(s, i + 1, Len(s))>>)

RECURSIVE DecValue(_)
DecValue(ds) ==
    IF ds = <<>> THEN 0
    ELSE 10 * DecValue(SubSeq(ds, 1, Len(ds) - 1)) + DigitValue(ds[Len(ds)])

\* str::parse::<f32> on an optionally signed run of decimal digits: Some of
\* [neg, mag], the float's sign bit and magnitude; None is Err.  (The other
\* literals f32 accepts - a fraction, an exponent, inf, nan - are not among
\* ProbeStdouts.)
ParseF32(s) ==
    LET signed == s # <<>> /\ Head(s) \in {"+", "-"}
        body   == IF signed THEN Tail(s) ELSE s
    IN  IF body # <<>> /\ \A i \in 1..Len(body) : IsDigit(body[i])
        THEN Some([neg |-> signed /\ Head(s) = "-", mag |-> DecValue(body)])
        ELSE None

\* (num / den) as u32: IEEE division, then Rust's saturating float-to-int
\* cast (NaN -> 0, below 0 -> 0, above u32::MAX -> u32::MAX, else truncate).
QuotientAsU32(num, den) ==
    LET neg == num.neg # den.neg
    IN  IF den.mag = 0
        THEN IF num.mag = 0 THEN U32(0)          \* 0/0 = NaN
             ELSE IF neg THEN U32(0)             \* -inf
             ELSE U32_MAX                        \* +inf
        ELSE IF neg THEN U32(0)
             ELSE U32(num.mag \div den.mag)

\* get_frame_rate, given the result of running ffprobe
get_frame_rate(ffprobe) ==
    IF ~ffprobe.spawned THEN None
    ELSE IF ~ffprobe.utf8 THEN None
    ELSE LET parts == SplitOnce(Trim(ffprobe.stdout))
         IN  IF parts = None THEN None
             ELSE LET num == ParseF32(parts[1][1])
                      den == ParseF32(parts[1][2])
                  IN  IF num # None /\ den # None
                      THEN Some(QuotientAsU32(num[1], den[1]))
                      ELSE None

\* ------------------------------------------------------------------ get_pixel_char
\* buckets of equal width 20 instead of the table's
C3_EvenBuckets(luminosity) ==
    CASE luminosity = 0 -> " "
      [] luminosity \in 1..20 -> "."
      [] luminosity \in 21..40 -> ","
      [] luminosity \in 41..60 -> "-"
      [] luminosity \in 61..80 -> "~"
      [] luminosity \in 81..100 -> ":"
      [] luminosity \in 101..120 -> ";"
      [] luminosity \in 121..140 -> "="
      [] luminosity \in 141..160 -> "!"
      [] luminosity \in 161..180 -> "*"
      [] luminosity \in 181..200 -> "#"
      [] luminosity \in 201..220 -> "$"
      [] OTHER -> "@"

get_pixel_char(luminosity) ==
    CASE luminosity = 0 -> " "
      [] luminosity \in 1..21 -> "."
      [] luminosity \in 22..43 -> ","
      [] luminosity \in 44..65 -> "-"
      [] luminosity \in 66..87 -> "~"
      [] luminosity \in 88..109 -> ":"
      [] luminosity \in 110..131 -> ";"
      [] luminosity \in 132..153 -> "="
      [] luminosity \in 154..175 -> "!"
      [] luminosity \in 176..197 -> "*"
      [] luminosity \in 198..219 -> "#"
      [] luminosity \in 220..241 -> "$"
      [] OTHER -> "@"

\* ------------------------------------------------------------------ frame files
\* Width of the index in "frame-%07d.png"
NameWidth == 7

RECURSIVE Digits(_)
Digits(i) ==
    IF i < 10 THEN <<i>> ELSE Append(Digits(i \div 10), i % 10)

RECURSIVE ZeroPad(_, _)
ZeroPad(ds, n) == IF Len(ds) >= n THEN ds ELSE ZeroPad(<<0>> \o ds, n)

\* The index part of the name ffmpeg gives frame i ("%07d"); the "frame-"
\* before it and the ".png" after it are the same in every name.
FormatIndex(i) == ZeroPad(Digits(i), NameWidth)

\* Ord of paths that differ in the index part only: byte-wise, a proper
\* prefix first
RECURSIVE LexLess(_, _)
LexLess(a, b) ==
    IF b = <<>> THEN FALSE
    ELSE IF a = <<>> THEN TRUE
    ELSE IF Head(a) # Head(b) THEN Head(a) < Head(b)
    ELSE LexLess(Tail(a), Tail(b))

RECURSIVE Insert(_, _)
Insert(x, sorted) ==
    IF sorted = <<>> THEN <<x>>
    ELSE IF LexLess(x, Head(sorted)) THEN <<x>> \o sorted
    ELSE <<Head(sorted)>> \o Insert(x, Tail(sorted))

\* the sort left out
C9_Unsorted(paths) == paths

\* frame_files.sort()
RECURSIVE Sort(_)
Sort(paths) ==
    IF paths = <<>> THEN <<>> ELSE Insert(Head(paths), Sort(Tail(paths)))

\* Orders in which WalkDir may yield the entries of a directory whose names
\* are `names` (the order is the file system's, not the program's): the
\* ascending and the descending listing, and the ascending one started at
\* its second and at its middle entry.
RECURSIVE SetToSeq(_)
SetToSeq(S) ==
    IF S = {} THEN <<>>
    ELSE LET x == CHOOSE y \in S : TRUE IN <<x>> \o SetToSeq(S \ {x})

Ascending(names) == Sort(SetToSeq(names))

Reverse(s) == [i \in 1..Len(s) |-> s[Len(s) + 1 - i]]

Rotate(s, k) == [i \in 1..Len(s) |-> s[((i - 1 + k) % Len(s)) + 1]]

WalkOrders(names) ==
    LET asc == Ascending(names)
    IN  IF names = {} THEN {<<>>}
        ELSE {asc, Reverse(asc), Rotate(asc, 1), Rotate(asc, Len(asc) \div 2)}

\* The frame ffmpeg decodes at position i: a solid gray image
LumSamples == <<0, 128, 255>>

LumOf(i) == LumSamples[((i - 1) % Len(LumSamples)) + 1]

\* What an ffmpeg run leaves in the cache directory: n files, of iw x ih
\* pixels, file c of them (if any) unreadable as an image
Frames(n, iw, ih, c) ==
    {[name |-> FormatIndex(i), corrupt |-> (i = c),
      iw |-> iw, ih |-> ih, lum |-> LumOf(i)] : i \in 1..n}

FileAt(path) == CHOOSE f \in files : f.name = path

\* ------------------------------------------------------------------ rendering
\* GenericImageView::get_pixel panics outside the image
InBounds(img, x, y) == x < img.iw /\ y < img.ih

\* the luma of pixel (x, y)
Luma(img, x, y) == img.lum

\* lines 164-174 reach a get_pixel outside the image
SamplesOutOfBounds(img, w, h) ==
    \E y \in 0..(h - 1) : \E x \in 0..(w - 1) : ~InBounds(img, x, y)

\* the inner loop over x of one row y, then the newline
RECURSIVE RenderRow(_, _, _, _, _)
RenderRow(buf, img, x, y, w) ==
    IF x >= w THEN Append(buf, "\n")
    ELSE RenderRow(Append(buf, get_pixel_char(Luma(img, x, y))), img, x + 1, y, w)

\* the loop over y, pushing onto the shared frame_buffer
RECURSIVE RenderRows(_, _, _, _, _)
RenderRows(buf, img, y, w, h) ==
    IF y >= h THEN buf
    ELSE RenderRows(RenderRow(buf, img, 0, y, w), img, y + 1, w, h)

\* the clear left out
C4_NotCleared(buf) == buf

\* frame_buffer.clear()
Cleared(buf) == <<>>

\* ------------------------------------------------------------------ output
\* One entry of `out`: a print! of `data`, a flush of stdout, or a sleep
Emit(data) == [op |-> "print", data |-> data, us |-> 0]

Flush == [op |-> "flush", data |-> <<>>, us |-> 0]

Sleep(us) == [op |-> "sleep", data |-> <<>>, us |-> us]

CLEAR_HOME == <<"ESC[2J", "ESC[H">>
HIDE_CURSOR == <<"ESC[?25l">>
WRAP_OFF == <<"ESC[?7l">>
HOME == <<"ESC[H">>
WRAP_ON == <<"ESC[?7h">>
SHOW_CURSOR == <<"ESC[?25h">>
HOME_CLEAR == <<"ESC[H", "ESC[2J">>

EnterMode == <<Emit(CLEAR_HOME), Emit(HIDE_CURSOR), Emit(WRAP_OFF)>>

RestoreMode == <<Emit(WRAP_ON), Emit(SHOW_CURSOR), Emit(HOME_CLEAR)>>

FfmpegDiagnostic == <<"Failed to execute ffmpeg - do you have it installed?", "\n">>

\* ------------------------------------------------------------------ inputs
DefaultFps == 30

FpsOptions == {None, Some(U32(0)), Some(U32(24))}

Str(spawned, utf8, stdout) ==
    [spawned |-> spawned, utf8 |-> utf8, stdout |-> stdout]

ProbeStdouts == {
    <<"3", "0", "0", "0", "0", "/", "1", "0", "0", "1", "\n">>,
    <<"1", "/", "2", "\n">>,
    <<"0", "/", "0", "\n">>,
    <<"3", "0", "/", "0", "\n">>,
    <<"-", "3", "0", "/", "1", "\n">>,
    <<>>,
    <<"3", "0", "\n">>,
    <<"x", "/", "1", "\n">>,
    <<"3", "0", "/", "x", "\n">>,
    <<"2", "5", "/", "1", "\n", "2", "5", "/", "1", "\n">> }

ProbeResults ==
    {Str(FALSE, TRUE, <<>>), Str(TRUE, FALSE, <<>>)}
    \cup {Str(TRUE, TRUE, t) : t \in ProbeStdouts}

NoProbe == Str(FALSE, FALSE, <<>>)

\* lines 77-79: opts.fps.unwrap_or(get_frame_rate(..).unwrap_or(30))
EffectiveRate(opt, ffprobe) ==
    UnwrapOr(opt, UnwrapOr(get_frame_rate(ffprobe), U32(DefaultFps)))

\* ------------------------------------------------------------------ make_dir
\* fs::create_dir returns Err for a path that exists
CreateDirFails(exists) == exists

\* an existing directory used as it is
C8_Reused(exists, fs) == fs

\* The files under the cache path once make_dir has returned
make_dir(exists, fs) ==
    IF CreateDirFails(exists)
    THEN {}     \* create_dir fails: remove_dir_all, then create_dir
    ELSE fs     \* create_dir made the directory: nothing was under the path

\* ------------------------------------------------------------------ the process
Exit(code, why) ==
    /\ pc' = "exited"
    /\ exitCode' = code
    /\ cause' = why

Panic(why) == Exit(101, why)

\* A process that has not yet read its arguments
FreshRun ==
    /\ pc = "start"
    /\ exitCode = -1
    /\ cause = ""
    /\ width = 0
    /\ height = 0
    /\ fpsOpt = None
    /\ probeOut = NoProbe
    /\ frame_rate = U32(0)
    /\ removed = -1
    /\ made = FALSE
    /\ ffmpeg = "not_run"
    /\ frame_files = <<>>
    /\ frame_buffer = <<>>
    /\ display_buffer = <<>>
    /\ shown = 0
    /\ out = <<>>

\* The cache path is absent, or an empty directory
Init ==
    /\ FreshRun
    /\ dirExists \in BOOLEAN
    /\ files = {}
    /\ lum = 0
    /\ glyph = ""

\* main, lines 73-76: the arguments, with the terminal's size for a width or
\* height that is not given
ParseOpts ==
    /\ pc = "start"
    /\ width' \in 0..MaxDim
    /\ height' \in 0..MaxDim
    /\ fpsOpt' \in FpsOptions
    /\ pc' = "main"
    /\ UNCHANGED <<exitCode, cause, probeOut, frame_rate, dirExists, files,
                   made, ffmpeg, frame_files, frame_buffer, display_buffer,
                   shown, out, removed, glyphVars>>

\* main, lines 77-79
ProbeFrameRate ==
    /\ pc = "main"
    /\ \E p \in ProbeResults :
         /\ probeOut' = p
         /\ frame_rate' = EffectiveRate(fpsOpt, p)
    /\ pc' = "probed"
    /\ UNCHANGED <<exitCode, cause, width, height, fpsOpt, dirExists, files,
                   made, ffmpeg, frame_files, frame_buffer, display_buffer,
                   shown, out, removed, glyphVars>>

\* main, line 81
MakeDir ==
    /\ pc = "probed"
    /\ removed' = IF CreateDirFails(dirExists) THEN Cardinality(files) ELSE -1
    /\ files' = make_dir(dirExists, files)
    /\ dirExists' = TRUE
    /\ made' = TRUE
    /\ probeOut' = NoProbe
    /\ pc' = "dir_made"
    /\ UNCHANGED <<exitCode, cause, width, height, fpsOpt, frame_rate, ffmpeg,
                   frame_files, frame_buffer, display_buffer, shown, out,
                   glyphVars>>

\* split_and_resize_frames, lines 96-114; main, line 82.  ffmpeg is a black
\* box: it cannot be started; or it runs and fails (a missing or unreadable
\* input) leaving no frame; or it runs to the end leaving n frames of
\* iw x ih pixels, file c of them (if any) unreadable as an image.  Its exit
\* status is not looked at.
Extract ==
    /\ pc = "dir_made"
    /\ removed' = -1
    /\ \/ /\ ffmpeg' = "spawn_failed"
          /\ out' = Append(out, Emit(FfmpegDiagnostic))
          /\ Exit(1, "")
          /\ UNCHANGED files
       \/ /\ ffmpeg' = "run_failed"
          /\ pc' = "extracted"
          /\ UNCHANGED <<files, out, exitCode, cause>>
       \/ /\ ffmpeg' = "run_ok"
          /\ \E n \in 0..MaxFrames, iw \in 1..MaxDim, ih \in 1..MaxDim :
               \E c \in 0..n :
                 files' = files \cup Frames(n, iw, ih, c)
          /\ pc' = "extracted"
          /\ UNCHANGED <<out, exitCode, cause>>
    /\ UNCHANGED <<width, height, fpsOpt, probeOut, frame_rate, dirExists,
                   made, frame_files, frame_buffer, display_buffer, shown,
                   glyphVars>>

\* display_loop, lines 145-161
EnterDisplay ==
    /\ pc = "extracted"
    /\ frame_buffer' = <<>>
    /\ out' = out \o EnterMode
    /\ \E walk \in WalkOrders({f.name : f \in files}) :
         frame_files' = Sort(walk)
    /\ display_buffer' = <<>>
    /\ shown' = 0
    /\ pc' = "display_loop"
    /\ UNCHANGED <<exitCode, cause, width, height, fpsOpt, probeOut,
                   frame_rate, dirExists, files, made, ffmpeg, removed, glyphVars>>

\* display_loop, lines 164-178: one iteration of the rendering loop
RenderFrame ==
    /\ pc = "display_loop"
    /\ Len(display_buffer) < Len(frame_files)
    /\ LET frame == FileAt(frame_files[Len(display_buffer) + 1])
           blob  == RenderRows(frame_buffer, frame, 0, width, height)
       IN  \/ /\ frame.corrupt
              /\ Panic("decode")
              /\ UNCHANGED <<frame_buffer, display_buffer>>
           \/ /\ ~frame.corrupt
              /\ SamplesOutOfBounds(frame, width, height)
              /\ Panic("out_of_bounds")
              /\ UNCHANGED <<frame_buffer, display_buffer>>
           \/ /\ ~frame.corrupt
              /\ ~SamplesOutOfBounds(frame, width, height)
              /\ display_buffer' = Append(display_buffer, blob)
              /\ frame_buffer' = Cleared(blob)
              /\ UNCHANGED <<pc, exitCode, cause>>
    /\ UNCHANGED <<width, height, fpsOpt, probeOut, frame_rate, dirExists,
                   files, made, ffmpeg, frame_files, shown, out, removed, glyphVars>>

\* each frame shown as soon as it is rendered
C10_Streaming == Len(display_buffer) > shown

\* The second loop (line 181) starts when the first (line 164) has ended
RenderingDone == Len(display_buffer) = Len(frame_files)

\* display_loop, lines 181-189: one iteration of the display loop
DisplayFrame ==
    /\ pc = "display_loop"
    /\ RenderingDone
    /\ shown < Len(display_buffer)
    /\ LET frame == display_buffer[shown + 1]
           sent  == out \o <<Emit(HOME), Emit(frame)>>
       IN  \/ /\ out' = sent                       \* flush().unwrap() fails
              /\ Panic("flush")
              /\ UNCHANGED shown
           \/ /\ IsZero(frame_rate)                \* 1000000 / 0
              /\ out' = Append(sent, Flush)
              /\ Panic("divide_by_zero")
              /\ UNCHANGED shown
           \/ /\ ~IsZero(frame_rate)
              /\ out' = sent \o <<Flush, Sleep(DivMillion(frame_rate))>>
              /\ shown' = shown + 1
              /\ UNCHANGED <<pc, exitCode, cause>>
    /\ UNCHANGED <<width, height, fpsOpt, probeOut, frame_rate, dirExists,
                   files, made, ffmpeg, frame_files, frame_buffer,
                   display_buffer, removed, glyphVars>>

\* display_loop, lines 192-194
Restore ==
    /\ pc = "display_loop"
    /\ RenderingDone
    /\ shown = Len(display_buffer)
    /\ out' = out \o RestoreMode
    /\ pc' = "cleanup"
    /\ UNCHANGED <<exitCode, cause, width, height, fpsOpt, probeOut,
                   frame_rate, dirExists, files, made, ffmpeg, frame_files,
                   frame_buffer, display_buffer, shown, removed, glyphVars>>

\* main, line 86, and the return from main
Cleanup ==
    /\ pc = "cleanup"
    /\ dirExists' = FALSE
    /\ files' = {}
    /\ Exit(0, "")
    /\ UNCHANGED <<width, height, fpsOpt, probeOut, frame_rate, made, ffmpeg,
                   frame_files, frame_buffer, display_buffer, shown, out,
                   removed, glyphVars>>

\* The program is started again, on the file system the last run left
Restart ==
    /\ pc = "exited"
    /\ Cardinality(files) <= MaxLeftover
    /\ pc' = "start"
    /\ exitCode' = -1
    /\ cause' = ""
    /\ width' = 0
    /\ height' = 0
    /\ fpsOpt' = None
    /\ probeOut' = NoProbe
    /\ frame_rate' = U32(0)
    /\ removed' = -1
    /\ made' = FALSE
    /\ ffmpeg' = "not_run"
    /\ frame_files' = <<>>
    /\ frame_buffer' = <<>>
    /\ display_buffer' = <<>>
    /\ shown' = 0
    /\ out' = <<>>
    /\ UNCHANGED <<dirExists, files, glyphVars>>

Next ==
    \/ ParseOpts
    \/ ProbeFrameRate
    \/ MakeDir
    \/ Extract
    \/ EnterDisplay
    \/ RenderFrame
    \/ DisplayFrame
    \/ Restore
    \/ Cleanup
    \/ Restart

Spec == Init /\ [][Next]_vars

\* ------------------------------------------------------------------ the glyph mapper alone
Luminance == 0..255

InitGlyph ==
    /\ FreshRun
    /\ dirExists = FALSE
    /\ files = {}
    /\ lum \in Luminance
    /\ glyph = ""

\* one call of get_pixel_char
MapPixel ==
    /\ glyph = ""
    /\ glyph' = get_pixel_char(lum)
    /\ UNCHANGED <<pc, exitCode, cause, width, height, fpsOpt, probeOut,
                   frame_rate, dirExists, files, removed, made, ffmpeg,
                   frame_files, frame_buffer, display_buffer, shown, out, lum>>

\* the next sample
NextPixel ==
    /\ glyph # ""
    /\ lum' \in Luminance
    /\ glyph' = ""
    /\ UNCHANGED <<pc, exitCode, cause, width, height, fpsOpt, probeOut,
                   frame_rate, dirExists, files, removed, made, ffmpeg,
                   frame_files, frame_buffer, display_buffer, shown, out>>

NextGlyph == MapPixel \/ NextPixel

SpecGlyph == InitGlyph /\ [][NextGlyph]_vars

\* ================================================================== claims
\* ------------------------------------------------------------------ helpers
\* The ramp, sparsest glyph first
Ramp == <<" ", ".", ",", "-", "~", ":", ";", "=", "!", "*", "#", "$", "@">>

RampIndex(ch) == CHOOSE i \in 1..Len(Ramp) : Ramp[i] = ch

\* First luminance of each bucket of the bucket table, in ramp order
BucketStart == <<0, 1, 22, 44, 66, 88, 110, 132, 154, 176, 198, 220, 242>>

\* The glyph the bucket table gives luminance l
TableGlyph(l) ==
    Ramp[CHOOSE i \in 1..Len(Ramp) :
            /\ BucketStart[i] <= l
            /\ (i = Len(Ramp) \/ l < BucketStart[i + 1])]

Exited == pc = "exited"

EnterEmitted == Len(out) >= 3 /\ SubSeq(out, 1, 3) = EnterMode

RestoreEmitted ==
    /\ Len(out) >= 6
    /\ SubSeq(out, Len(out) - 2, Len(out)) = RestoreMode

\* How many frame blobs have been written to the terminal
FramesWritten == Cardinality({k \in 1..Len(out) : out[k] = Emit(HOME)})

\* C1: whenever the process has ended after display_loop emitted the
\* enter-mode sequences, the restore sequences have been emitted.
C1_RestoreFollowsEntry == (Exited /\ EnterEmitted) => RestoreEmitted

\* C2: whenever the process has ended after make_dir created the cache
\* directory, the directory no longer exists.
C2_CacheRemovedAtExit == (Exited /\ made) => ~dirExists

\* C3: get_pixel_char returns a glyph of the ramp for every luminance in
\* 0..255, the glyph of the bucket table, and never a sparser glyph than it
\* returns for a smaller luminance.
C3_GlyphMapper ==
    glyph # "" =>
        /\ \E i \in 1..Len(Ramp) : Ramp[i] = glyph
        /\ glyph = TableGlyph(lum)
        /\ \A l \in 0..lum :
             RampIndex(get_pixel_char(l)) <= RampIndex(glyph)

C3_Witness == glyph = "@" /\ lum = 242

\* What a row-major blob of a solid image of luminance l looks like: w glyphs
\* and a newline, h times
ExpectedBlob(l, w, h) ==
    [k \in 1..(w * h + h) |->
        IF k % (w + 1) = 0 THEN "\n" ELSE TableGlyph(l)]

C5_ZeroRateFailsFast ==
    (Exited /\ IsZero(frame_rate)) =>
        /\ exitCode # 0
        /\ ~made
        /\ ffmpeg = "not_run"
        /\ out = <<>>
        /\ cause # "divide_by_zero"

\* The probe printed num/den with numeric parts and a denominator other than 0
ParseableRational(ffprobe) ==
    /\ ffprobe.spawned
    /\ ffprobe.utf8
    /\ LET parts == SplitOnce(Trim(ffprobe.stdout))
       IN  /\ parts # None
           /\ ParseF32(parts[1][1]) # None
           /\ ParseF32(parts[1][2]) # None
           /\ ParseF32(parts[1][2])[1].mag # 0

\* C6: the rate is the --fps value when given, else the probed rate when the
\* probe printed a parseable rational, else 30.
C6_RateSelection ==
    pc = "probed" =>
        frame_rate =
            IF fpsOpt # None THEN fpsOpt[1]
            ELSE IF ParseableRational(probeOut)
                 THEN get_frame_rate(probeOut)[1]
                 ELSE U32(30)

\* C7: a run in which ffmpeg could not be started, or ran and failed leaving
\* no frame, never enters display_loop and ends with status 1 and no terminal
\* control sequence; status 0 is only for a run whose extraction succeeded.
C7_ExtractionFailureFatal ==
    /\ ffmpeg \in {"spawn_failed", "run_failed"} =>
          /\ pc \notin {"display_loop", "cleanup"}
          /\ ~EnterEmitted
          /\ (Exited => exitCode = 1)
    /\ (Exited /\ exitCode = 0) => ffmpeg = "run_ok"

\* C8: when make_dir has returned, whatever was at the cache path before, the
\* process is still running, the directory exists and it is empty.
C8_CleanSlate ==
    pc = "dir_made" =>
        /\ exitCode = -1
        /\ dirExists
        /\ files = {}

C8_Witness == pc = "dir_made" /\ removed >= 1 /\ dirExists /\ files = {}

\* The file ffmpeg wrote as frame i
FrameNumber(i) == CHOOSE f \in files : f.name = FormatIndex(i)

\* 1000000 / frame_rate microseconds
ExpectedInterval ==
    IF frame_rate = U32_MAX THEN 0
    ELSE 1000000 \div (frame_rate[1] * (2 ^ 16) + frame_rate[2])

\* What showing frame i asks of the terminal and the OS, in order
FrameEvents(i) ==
    <<Emit(HOME),
      Emit(ExpectedBlob(FrameNumber(i).lum, width, height)),
      Flush,
      Sleep(ExpectedInterval)>>

RECURSIVE PlayedUpTo(_)
PlayedUpTo(n) ==
    IF n = 0 THEN EnterMode ELSE PlayedUpTo(n - 1) \o FrameEvents(n)

\* C9: while display_loop plays, the output is the enter-mode sequences and
\* then, for the frames 1..shown in the order of their index, home, the
\* frame's blob in one write, a flush and a sleep of 1000000 / frame_rate;
\* when display_loop has returned it is that for all n frames of the
\* directory, followed by the restore sequences, and it stays so to exit 0.
C9_PlaybackTrace ==
    /\ (pc = "display_loop" /\ RenderingDone) =>
          /\ Len(frame_files) = Cardinality(files)
          /\ out = PlayedUpTo(shown)
    /\ pc = "cleanup" =>
          /\ shown = Cardinality(files)
          /\ out = PlayedUpTo(shown) \o RestoreMode
    /\ (Exited /\ exitCode = 0) =>
          /\ Len(out) = 6 + 4 * shown
          /\ shown = Len(frame_files)
          /\ EnterEmitted
          /\ RestoreEmitted
          /\ \A k \in 1..shown :
               SubSeq(out, 4 * k, 4 * k + 3) =
                   <<Emit(HOME), Emit(display_buffer[k]), Flush,
                     Sleep(ExpectedInterval)>>

C9_Witness ==
    /\ pc = "cleanup"
    /\ shown >= 10
    /\ width = 2
    /\ height = 1

\* C10: a frame blob is written to the terminal only when every file of the
\* cache directory has been rendered, and a run that aborted on a frame file
\* that did not open or decode has written none.
C10_NoPartialPlayback ==
    /\ (FramesWritten > 0 /\ dirExists) =>
          Len(display_buffer) = Cardinality(files)
    /\ cause = "decode" =>
          /\ FramesWritten = 0
          /\ out = EnterMode

C10_Witness ==
    /\ cause = "decode"
    /\ Len(display_buffer) >= 2

====
